---- MODULE Spec2Model ----
(***************************************************************************)
(* Model of src/erkc63/bills.py: the module-level image helpers            *)
(* (image_set_paid, get_image_from_pdfpage, pdfpage_to_png) and the        *)
(* QrCodes registry, driven by a client that calls the public functions.   *)
(*                                                                         *)
(* A float paid_scale is modelled as an exact rational <<num, den>>.       *)
(* A PIL image is a heap cell [width, height, mode, src, stamp]; src is    *)
(* the xref of the embedded object it was built from (0: none), stamp the  *)
(* sequence of pasted logos.  Encoded PNG bytes are modelled by the pixel  *)
(* content they encode (image_save is deterministic in the pixels).        *)
(* The PDF engine and the image library are black boxes: resize and paste  *)
(* composite the logo, get_pixmap rounds the scaled page outward.          *)
(***************************************************************************)
EXTENDS Integers, Sequences, FiniteSets, TLC

\* ---------------------------------------------------------------- bounds
MaxDim ==
    4
MaxPage ==
    3
MaxBox ==
    3
MaxDen ==
    3
MaxImages ==
    2
MaxHeap ==
    2

\* ---------------------------------------------------------------- inputs
Names ==
    {"img0", "img2", "img4"}

NoneDoc ==
    [kind |-> "None"]

EmptyDoc ==
    [kind |-> "empty"]

\* Size recorded for an embedded raster object (entries 2 and 3 of a
\* get_images() tuple).
EmbeddedSize ==
    <<3, 2>>

\* page.get_images(): entry i is (xref, .., width, height, .., name, ..);
\* xrefs are distinct, here the position in the list.
ImageList(names) ==
    [i \in 1..Len(names) |->
        [xref |-> i, width |-> EmbeddedSize[1], height |-> EmbeddedSize[2],
         name |-> names[i]]]

NameSeqs ==
    UNION {[1..n -> Names] : n \in 0..MaxImages}

\* First page of a decoded document: its image list and page.rect[2:].
Page(names, w, h) ==
    [kind |-> "pdf", images |-> ImageList(names), w |-> w, h |-> h]

\* Pages searched by name: every image list, one page size.
NamedPages ==
    {Page(ns, 1, 1) : ns \in NameSeqs}

\* Pages rendered: every page size.
SizedPages ==
    {Page(<<>>, w, h) : w \in 1..MaxPage, h \in 1..MaxPage}

\* Bills handed to the constructor: bytes | None, b"" included.
Documents ==
    {NoneDoc, EmptyDoc,
     Page(<<"img2", "img4">>, 2, 3), Page(<<"img4">>, 2, 3),
     Page(<<"img2">>, 2, 3), Page(<<"img0">>, 2, 3)}

\* paid_scale values handed to the constructor, 0.65 among them.
PaidScales ==
    {<<0, 1>>, <<13, 20>>, <<1, 1>>, <<3, 2>>}

\* paid_scale values handed to image_set_paid directly.
Scales ==
    {<<n, d>> : n \in -1..(MaxDen + 1), d \in 1..MaxDen}

\* max_rect values handed to the constructor.
DefaultMaxRect ==
    <<3840, 2160>>

MaxRects ==
    {<<0, 0>>, <<4, 0>>, DefaultMaxRect}

\* max_rect values handed to pdfpage_to_png directly.
Boxes ==
    {<<W, H>> : W \in -1..MaxBox, H \in -1..MaxBox}

\* max_rect values handed to get_image_from_pdfpage directly.
ThumbBoxes ==
    {<<W, H>> : W \in 1..MaxBox, H \in 1..MaxBox}

QrSupported ==
    {"erkc", "kapremont", "peni"}

PdfSupported ==
    {"erkc", "peni"}

\* ------------------------------------------------------------ arithmetic
Min(a, b) ==
    IF a <= b THEN a ELSE b

Abs(a) ==
    IF a >= 0 THEN a ELSE -a

\* int(n / d) for d > 0: truncation toward zero.
IntTrunc(n, d) ==
    IF n >= 0 THEN n \div d ELSE -((-n) \div d)

\* math.ceil(n / d) for d > 0.
Ceil(n, d) ==
    -((-n) \div d)

\* bool(x) of bytes | None.
Truthy(doc) ==
    doc.kind = "pdf"

NoExc ==
    [type |-> "none", line |-> 0]

Raise(type, line, hp) ==
    [exc |-> [type |-> type, line |-> line], val |-> [kind |-> "none"], heap |-> hp]

Return(val, hp) ==
    [exc |-> NoExc, val |-> val, heap |-> hp]

EmptyMap ==
    [k \in {} |-> 0]

Put(m, k, v) ==
    [x \in DOMAIN m \cup {k} |-> IF x = k THEN v ELSE m[x]]

\* ------------------------------------------------------ image primitives
\* partial(Image.convert, mode="P", palette=Palette.WEB): a new image.
image_convert(img) ==
    [img EXCEPT !.mode = "P"]

\* image.save(bio, format="png", optimize=True); bio.getvalue()
image_save(img) ==
    [kind |-> "bytes", width |-> img.width, height |-> img.height,
     src |-> img.src, stamp |-> img.stamp]

\* Variant: the check admits paid_scale = 0.
ValidScale_closed(paid_scale) ==
    0 <= paid_scale[1] /\ paid_scale[1] <= paid_scale[2]

\* assert 0 < paid_scale <= 1 (lines 41 and 104; assert statements are
\* executed, as in a run without -O)
ValidScale(paid_scale) ==
    0 < paid_scale[1] /\ paid_scale[1] <= paid_scale[2]

\* Variant: the stamp is sized from the longer side.
StampPx_max(width, height, paid_scale) ==
    IntTrunc((IF width >= height THEN width ELSE height) * paid_scale[1],
             paid_scale[2])

\* px = int(min(image.width, image.height) * paid_scale)
StampPx(width, height, paid_scale) ==
    IntTrunc(Min(width, height) * paid_scale[1], paid_scale[2])

\* box = (image.width - px) // 2, (image.height - px) // 2
StampBox(width, height, px) ==
    <<(width - px) \div 2, (height - px) \div 2>>

\* Variant: the logo is pasted into the argument itself.
image_set_paid_inplace(hp, id, paid_scale) ==
    IF ~ValidScale(paid_scale)
    THEN Raise("AssertionError", 41, hp)
    ELSE LET px  == StampPx(hp[id].width, hp[id].height, paid_scale)
             box == StampBox(hp[id].width, hp[id].height, px)
             pasted == [hp[id] EXCEPT !.stamp = Append(@, [px |-> px, box |-> box])]
         IN  Return(Len(hp) + 1,
                    Append([hp EXCEPT ![id] = pasted], image_convert(pasted)))

\* image_set_paid(image, paid_scale): image.convert("RGB") allocates a new
\* image, the logo is pasted into that one, image_convert allocates the
\* returned one.  hp[id] is the argument; the result is a fresh cell.
image_set_paid(hp, id, paid_scale) ==
    IF ~ValidScale(paid_scale)
    THEN Raise("AssertionError", 41, hp)
    ELSE LET rgb == [hp[id] EXCEPT !.mode = "RGB"]
             px  == StampPx(rgb.width, rgb.height, paid_scale)
             box == StampBox(rgb.width, rgb.height, px)
             pasted == [rgb EXCEPT !.stamp = Append(@, [px |-> px, box |-> box])]
         IN  Return(Len(hp) + 1, Append(hp, image_convert(pasted)))


\* ------------------------------------------------- get_image_from_pdfpage
\* Variant: the scan keeps the last entry with the name.
ScanImages_last(images, image_name, i) ==
    LET hits == {j \in i..Len(images) : images[j].name = image_name}
    IN  IF hits = {} THEN 0 ELSE CHOOSE j \in hits : \A k \in hits : k <= j

\* for image in page.get_images(): if image[7] == image_name: ...
\* Index of the entry the loop returns from, scanning from i; 0 when the loop
\* runs off the end.
RECURSIVE ScanImages(_, _, _)
ScanImages(images, image_name, i) ==
    IF i > Len(images) THEN 0
    ELSE IF images[i].name = image_name THEN i
    ELSE ScanImages(images, image_name, i + 1)

\* PIL round_aspect for x = round_aspect(y * aspect, key=|aspect - n / y|):
\* max(min(floor, ceil, key=key), 1); min keeps the first of equal keys.
RoundAspectX(width, height, y) ==
    LET lo == (y * width) \div height
        hi == Ceil(y * width, height)
        key(n) == Abs(width * y - n * height)
        best == IF key(lo) <= key(hi) THEN lo ELSE hi
    IN  IF best >= 1 THEN best ELSE 1

\* PIL round_aspect for y = round_aspect(x / aspect,
\*                                      key=0 if n == 0 else |aspect - x / n|).
RoundAspectY(width, height, x) ==
    LET lo == (x * height) \div width
        hi == Ceil(x * height, width)
        num(n) == Abs(width * n - x * height)
        best == IF lo = 0 THEN lo
                ELSE IF num(lo) * hi <= num(hi) * lo THEN lo ELSE hi
    IN  IF best >= 1 THEN best ELSE 1

\* image.thumbnail(max_rect) for a positive max_rect: shrinks in place,
\* keeping the aspect ratio; never enlarges.
thumbnail(img, max_rect) ==
    LET x == max_rect[1]
        y == max_rect[2]
    IN  IF x >= img.width /\ y >= img.height THEN img
        ELSE IF x * img.height >= y * img.width
        THEN [img EXCEPT !.width = RoundAspectX(img.width, img.height, y),
                         !.height = y]
        ELSE [img EXCEPT !.height = RoundAspectY(img.width, img.height, x),
                         !.width = x]

\* Pixmap(page.parent, image[0]).pil_image()
Pixmap(entry) ==
    [width |-> entry.width, height |-> entry.height, mode |-> "RGB",
     src |-> entry.xref, stamp |-> <<>>]

get_image_from_pdfpage(hp, page, image_name, max_rect) ==
    IF image_name = ""
    THEN Raise("AssertionError", 60, hp)
    ELSE LET i == ScanImages(page.images, image_name, 1)
         IN  IF i = 0
             THEN Raise("FileNotFoundError", 69, hp)
             ELSE LET image == thumbnail(Pixmap(page.images[i]), max_rect)
                  IN  Return(Len(hp) + 1, Append(hp, image_convert(image)))

\* --------------------------------------------------------- pdfpage_to_png
\* Variant: any(...) in place of all(...).
ValidRect_any(max_rect) ==
    \E k \in 1..2 : max_rect[k] > 0

\* assert all(x > 0 for x in max_rect)
ValidRect(max_rect) ==
    \A k \in 1..2 : max_rect[k] > 0

\* Variant: max in place of min.
Factor_max(max_rect, page) ==
    IF max_rect[1] * page.h >= max_rect[2] * page.w
    THEN <<max_rect[1], page.w>>
    ELSE <<max_rect[2], page.h>>

\* factor = min(x / y for x, y in zip(max_rect, page.rect[2:])), as the
\* fraction <<numerator, denominator>>; min keeps the first of equal values.
Factor(max_rect, page) ==
    IF max_rect[1] * page.h <= max_rect[2] * page.w
    THEN <<max_rect[1], page.w>>
    ELSE <<max_rect[2], page.h>>

\* page.get_pixmap(matrix=prescale(factor, factor)).pil_image(): the pixmap
\* covers the scaled page rectangle, rounded outward to whole pixels.
get_pixmap(page, factor) ==
    [width |-> Ceil(factor[1] * page.w, factor[2]),
     height |-> Ceil(factor[1] * page.h, factor[2]),
     mode |-> "RGB", src |-> 0, stamp |-> <<>>]

pdfpage_to_png(hp, page, max_rect) ==
    IF ~ValidRect(max_rect)
    THEN Raise("AssertionError", 82, hp)
    ELSE LET factor == Factor(max_rect, page)
             image == get_pixmap(page, factor)
         IN  Return(image_save(image_convert(image)), hp)

\* ---------------------------------------------------------------- QrCodes
\* Outcome of a constructor run: the exception (NoExc: none), the instance
\* attributes assigned so far, the heap, and the documents decoded.
Outcome(exc, self, hp, decoded) ==
    [exc |-> exc, self |-> self, heap |-> hp, decoded |-> decoded]

Exc(type, line) ==
    [type |-> type, line |-> line]

\* self._codes = {}; self._paid_scale = paid_scale.  The class body only
\* annotates _codes, _paid_scale and _pdf; these two are the attributes the
\* constructor assigns.
NewSelf(paid_scale) ==
    [_codes |-> EmptyMap, _paid_scale |-> paid_scale]

\* if pdf_erkc: ... (the text boxes read and printed after the two images
\* are assigned change no state)
InitErkc(self, hp, pdf_erkc, max_rect) ==
    LET page == pdf_erkc
        png  == pdfpage_to_png(hp, page, max_rect)
    IN  IF png.exc # NoExc
        THEN Outcome(png.exc, self, hp, {"erkc"})
        ELSE IF "_pdf" \notin DOMAIN self
        THEN Outcome(Exc("AttributeError", 111), self, hp, {"erkc"})
        ELSE
        LET self1 == [self EXCEPT !._pdf = Put(@, "erkc", png.val)]
            img2  == get_image_from_pdfpage(hp, page, "img2", max_rect)
        IN  IF img2.exc # NoExc
            THEN Outcome(img2.exc, self1, hp, {"erkc"})
            ELSE
            LET self2 == [self1 EXCEPT !._codes = Put(@, "erkc", img2.val)]
                img4  == get_image_from_pdfpage(img2.heap, page, "img4", max_rect)
            IN  IF img4.exc # NoExc
                THEN Outcome(img4.exc, self2, hp, {"erkc"})
                ELSE Outcome(NoExc,
                             [self2 EXCEPT !._codes = Put(@, "kapremont", img4.val)],
                             img4.heap, {"erkc"})

\* if pdf_peni: ...
InitPeni(self, hp, pdf_peni, max_rect, decoded) ==
    LET page == pdf_peni
        png  == pdfpage_to_png(hp, page, max_rect)
    IN  IF png.exc # NoExc
        THEN Outcome(png.exc, self, hp, decoded \cup {"peni"})
        ELSE IF "_pdf" \notin DOMAIN self
        THEN Outcome(Exc("AttributeError", 135), self, hp, decoded \cup {"peni"})
        ELSE
        LET self1 == [self EXCEPT !._pdf = Put(@, "peni", png.val)]
            img0  == get_image_from_pdfpage(hp, page, "img0", max_rect)
        IN  IF img0.exc # NoExc
            THEN Outcome(img0.exc, self1, hp, decoded \cup {"peni"})
            ELSE Outcome(NoExc,
                         [self1 EXCEPT !._codes = Put(@, "peni", img0.val)],
                         img0.heap, decoded \cup {"peni"})

\* QrCodes.__init__(pdf_erkc, pdf_peni, max_rect=..., paid_scale=...)
QrCodes__init__(hp, pdf_erkc, pdf_peni, max_rect, paid_scale) ==
    IF ~ValidScale(paid_scale)
    THEN Outcome(Exc("AssertionError", 104), EmptyMap, hp, {})
    ELSE
    LET self0 == NewSelf(paid_scale)
        erkc  == IF Truthy(pdf_erkc)
                 THEN InitErkc(self0, hp, pdf_erkc, max_rect)
                 ELSE Outcome(NoExc, self0, hp, {})
    IN  IF erkc.exc # NoExc
        THEN erkc
        ELSE IF Truthy(pdf_peni)
        THEN InitPeni(erkc.self, erkc.heap, pdf_peni, max_rect, erkc.decoded)
        ELSE erkc

None ==
    [kind |-> "None"]

\* Variant: self._codes[qr] in place of self._codes.get(qr).
qr_KeyError(self, hp, key, paid) ==
    IF key \notin DOMAIN self._codes
    THEN Raise("KeyError", 145, hp)
    ELSE IF paid
    THEN LET stamped == image_set_paid(hp, self._codes[key], self._paid_scale)
         IN  IF stamped.exc # NoExc
             THEN stamped
             ELSE Return(image_save(stamped.heap[stamped.val]), stamped.heap)
    ELSE Return(image_save(hp[self._codes[key]]), hp)

\* QrCodes.qr(qr, filename=None, paid=...)
qr(self, hp, key, paid) ==
    IF key \notin DOMAIN self._codes
    THEN Return(None, hp)
    ELSE IF paid
    THEN LET stamped == image_set_paid(hp, self._codes[key], self._paid_scale)
         IN  IF stamped.exc # NoExc
             THEN stamped
             ELSE Return(image_save(stamped.heap[stamped.val]), stamped.heap)
    ELSE Return(image_save(hp[self._codes[key]]), hp)

\* QrCodes.pdf(pdf, filename=None)
pdf(self, hp, key) ==
    IF "_pdf" \notin DOMAIN self
    THEN Raise("AttributeError", 190, hp)
    ELSE IF key \in DOMAIN self._pdf
    THEN Return(self._pdf[key], hp)
    ELSE Return(None, hp)

\* ------------------------------------------------------------------ state
VARIABLES
    heap,       \* the images the client or a registry holds, by identity
    registry,   \* the QrCodes instance the client holds, or NoRegistry
    last        \* the last call: operation, arguments, exception, value

vars ==
    <<heap, registry, last>>

NoRegistry ==
    [kind |-> "none"]

\* An image the client holds before any call.
ClientImage ==
    [width |-> EmbeddedSize[1], height |-> EmbeddedSize[2], mode |-> "P",
     src |-> 0, stamp |-> <<>>]

\* Images of a call that nobody references afterwards are dropped.
Collect(hp, n) ==
    SubSeq(hp, 1, n)

\* registry = QrCodes(pdf_erkc, pdf_peni, max_rect=max_rect, paid_scale=...)
Construct(pdf_erkc, pdf_peni, max_rect, paid_scale) ==
    LET r == QrCodes__init__(heap, pdf_erkc, pdf_peni, max_rect, paid_scale)
    IN  /\ last' = [op |-> "QrCodes",
                    args |-> [pdf_erkc |-> pdf_erkc, pdf_peni |-> pdf_peni,
                              max_rect |-> max_rect, paid_scale |-> paid_scale],
                    exc |-> r.exc, val |-> None,
                    self |-> r.self, decoded |-> r.decoded]
        /\ IF r.exc = NoExc
           THEN /\ registry' = [kind |-> "QrCodes", self |-> r.self,
                                pdf_erkc |-> pdf_erkc.kind,
                                pdf_peni |-> pdf_peni.kind]
                /\ heap' = r.heap
           ELSE UNCHANGED <<registry, heap>>

\* registry.qr(key, paid=paid)
Qr(key, paid) ==
    /\ registry # NoRegistry
    /\ LET r == qr(registry.self, heap, key, paid)
       IN  /\ last' = [op |-> "qr", args |-> [qr |-> key, paid |-> paid],
                       exc |-> r.exc, val |-> r.val]
           /\ heap' = Collect(r.heap, Len(heap))
    /\ UNCHANGED registry

\* registry.pdf(key)
Pdf(key) ==
    /\ registry # NoRegistry
    /\ LET r == pdf(registry.self, heap, key)
       IN  last' = [op |-> "pdf", args |-> [pdf |-> key],
                    exc |-> r.exc, val |-> r.val]
    /\ UNCHANGED <<registry, heap>>

\* stamped = image_set_paid(heap[id], paid_scale); the client keeps it.
ImageSetPaid(id, paid_scale) ==
    /\ Len(heap) < MaxHeap
    /\ LET r == image_set_paid(heap, id, paid_scale)
       IN  /\ last' = [op |-> "image_set_paid",
                       args |-> [image |-> id, paid_scale |-> paid_scale],
                       exc |-> r.exc, val |-> r.val]
           /\ heap' = r.heap
    /\ UNCHANGED registry

Init ==
    /\ heap = <<ClientImage>>
    /\ registry = NoRegistry
    /\ last = [op |-> "init"]

Next ==
    \/ \E e \in Documents, p \in Documents, m \in MaxRects, s \in PaidScales :
          Construct(e, p, m, s)
    \/ \E k \in QrSupported, paid \in BOOLEAN : Qr(k, paid)
    \/ \E k \in PdfSupported : Pdf(k)
    \/ \E id \in DOMAIN heap, s \in PaidScales : ImageSetPaid(id, s)

Spec ==
    Init /\ [][Next]_vars

\* ------------------------------------------- the helpers called directly
\* image_set_paid(image, paid_scale) on a width x height image.
CallImageSetPaid(width, height, paid_scale) ==
    LET image == [ClientImage EXCEPT !.width = width, !.height = height]
        r == image_set_paid(<<image>>, 1, paid_scale)
    IN  /\ last' = [op |-> "image_set_paid",
                    args |-> [width |-> width, height |-> height,
                              paid_scale |-> paid_scale],
                    exc |-> r.exc,
                    val |-> IF r.exc = NoExc THEN r.heap[r.val] ELSE None,
                    image |-> r.heap[1]]
        /\ UNCHANGED <<heap, registry>>

\* get_image_from_pdfpage(page, image_name, max_rect)
CallGetImage(page, image_name, max_rect) ==
    LET r == get_image_from_pdfpage(<<>>, page, image_name, max_rect)
    IN  /\ last' = [op |-> "get_image_from_pdfpage",
                    args |-> [page |-> page, image_name |-> image_name,
                              max_rect |-> max_rect],
                    exc |-> r.exc,
                    val |-> IF r.exc = NoExc THEN r.heap[r.val] ELSE None]
        /\ UNCHANGED <<heap, registry>>

\* pdfpage_to_png(page, max_rect)
CallPdfpageToPng(page, max_rect) ==
    LET r == pdfpage_to_png(<<>>, page, max_rect)
    IN  /\ last' = [op |-> "pdfpage_to_png",
                    args |-> [page |-> page, max_rect |-> max_rect],
                    exc |-> r.exc, val |-> r.val]
        /\ UNCHANGED <<heap, registry>>

InitFn ==
    /\ heap = <<>>
    /\ registry = NoRegistry
    /\ last = [op |-> "init"]

NextFn ==
    \/ \E w \in 1..MaxDim, h \in 1..MaxDim, s \in Scales :
          CallImageSetPaid(w, h, s)
    \/ \E page \in NamedPages, n \in Names \cup {""}, m \in ThumbBoxes :
          CallGetImage(page, n, m)
    \/ \E page \in SizedPages, m \in Boxes : CallPdfpageToPng(page, m)

SpecFn ==
    InitFn /\ [][NextFn]_vars

\* ============================================================= properties
HasImage(doc, name) ==
    \E i \in DOMAIN doc.images : doc.images[i].name = name

Constructed ==
    last.op = "QrCodes"

Codes(self) ==
    IF "_codes" \in DOMAIN self THEN DOMAIN self._codes ELSE {}

\* C1: constructing with a primary document whose first page holds img2 and
\* img4, no penalty document and paid_scale = 0.65 succeeds, and the registry
\* holds "erkc" and "kapremont" (qr returns bytes) and not "peni" (qr returns
\* None).
C1_PrimaryOnlySucceeds ==
    ( /\ Constructed
      /\ Truthy(last.args.pdf_erkc)
      /\ HasImage(last.args.pdf_erkc, "img2")
      /\ HasImage(last.args.pdf_erkc, "img4")
      /\ last.args.pdf_peni = NoneDoc
      /\ last.args.paid_scale = <<13, 20>>
      /\ last.args.max_rect = DefaultMaxRect )
    => ( /\ last.exc = NoExc
         /\ registry.kind = "QrCodes"
         /\ Codes(registry.self) = {"erkc", "kapremont"} )

C3_AbsentDocumentNoKey ==
    registry # NoRegistry =>
        /\ registry.pdf_peni = "None" =>
              /\ "peni" \notin Codes(registry.self)
              /\ (last.op = "qr" /\ last.args.qr = "peni" /\ ~last.args.paid)
                   => (last.exc = NoExc /\ last.val = None)
        /\ \A k \in Codes(registry.self) :
              IF k = "peni" THEN registry.pdf_peni = "pdf"
              ELSE registry.pdf_erkc = "pdf"

C3_Witness ==
    /\ registry # NoRegistry
    /\ registry.pdf_peni = "None"
    /\ last.op = "qr"
    /\ last.args.qr = "peni"
    /\ ~last.args.paid
    /\ last.val = None

\* C4: constructing from a primary document without img2 fails with the
\* FileNotFoundError raised by the named-image lookup and yields no registry.
C4_MissingImg2NotFound ==
    ( /\ Constructed
      /\ Truthy(last.args.pdf_erkc)
      /\ ~HasImage(last.args.pdf_erkc, "img2")
      /\ last.args.paid_scale[1] > 0
      /\ last.args.paid_scale[1] <= last.args.paid_scale[2]
      /\ last.args.max_rect = DefaultMaxRect )
    => last.exc = [type |-> "FileNotFoundError", line |-> 69]

\* C5: pdf(key) on a registry built without the corresponding document
\* returns None and raises nothing.
C5_PdfAbsentIsNone ==
    ( /\ last.op = "pdf"
      /\ (IF last.args.pdf = "erkc" THEN registry.pdf_erkc
                                     ELSE registry.pdf_peni) = "None" )
    => (last.exc = NoExc /\ last.val = None)

\* C6: a construction with paid_scale <= 0 or paid_scale > 1 fails at the
\* first check, whatever the documents, with no document decoded and no
\* attribute or key stored; with 0 < paid_scale <= 1 that check does not fail.
C6_PaidScaleFirst ==
    Constructed =>
        IF last.args.paid_scale[1] <= 0
           \/ last.args.paid_scale[1] > last.args.paid_scale[2]
        THEN /\ last.exc = [type |-> "AssertionError", line |-> 104]
             /\ last.decoded = {}
             /\ DOMAIN last.self = {}
        ELSE last.exc.line # 104

C6_Witness ==
    /\ Constructed
    /\ last.args.paid_scale = <<3, 2>>
    /\ Truthy(last.args.pdf_erkc)
    /\ Truthy(last.args.pdf_peni)
    /\ last.exc.line = 104

NonPositive(max_rect) ==
    max_rect[1] <= 0 \/ max_rect[2] <= 0

\* C7 as stated: a construction with a max_rect whose width or height is
\* <= 0 fails with a precondition failure, whatever the documents.
C7_NonPositiveBoxAlwaysFails ==
    (Constructed /\ NonPositive(last.args.max_rect))
    => last.exc.type = "AssertionError"

\* C7 as amended: a construction with a non-positive max_rect fails with the
\* precondition failure, storing no key, when at least one non-empty document
\* is supplied; with both documents None or empty max_rect is never examined
\* and the construction succeeds for a valid paid_scale.
C7_NonPositiveBoxFailsWithDocument ==
    (Constructed /\ NonPositive(last.args.max_rect)) =>
        IF Truthy(last.args.pdf_erkc) \/ Truthy(last.args.pdf_peni)
        THEN /\ last.exc.type = "AssertionError"
             /\ Codes(last.self) = {}
        ELSE (last.args.paid_scale[1] > 0
              /\ last.args.paid_scale[1] <= last.args.paid_scale[2])
             => last.exc = NoExc

C7_Witness ==
    /\ Constructed
    /\ NonPositive(last.args.max_rect)
    /\ Truthy(last.args.pdf_erkc)
    /\ last.exc = [type |-> "AssertionError", line |-> 82]

\* C8: for a w x h image and 0 < s <= 1 the stamp side is
\* d = floor(min(w, h) * s), its offset (floor((w - d) / 2),
\* floor((h - d) / 2)), equal on both axes for a square image, and the stamp
\* lies inside the image.
C8_StampCentred ==
    ( /\ last.op = "image_set_paid"
      /\ "width" \in DOMAIN last.args
      /\ last.args.paid_scale[1] > 0
      /\ last.args.paid_scale[1] <= last.args.paid_scale[2] )
    => /\ last.exc = NoExc
       /\ Len(last.val.stamp) = 1
       /\ LET w == last.args.width
              h == last.args.height
              n == last.args.paid_scale[1]
              q == last.args.paid_scale[2]
              m == IF w <= h THEN w ELSE h
              d == last.val.stamp[1].px
              x == last.val.stamp[1].box[1]
              y == last.val.stamp[1].box[2]
          IN  /\ d * q <= m * n /\ m * n < (d + 1) * q
              /\ 2 * x <= w - d /\ w - d <= 2 * x + 1
              /\ 2 * y <= h - d /\ h - d <= 2 * y + 1
              /\ w = h => x = y
              /\ x >= 0 /\ x + d <= w
              /\ y >= 0 /\ y + d <= h

C8_Witness ==
    /\ last.op = "image_set_paid"
    /\ "width" \in DOMAIN last.args
    /\ last.args.width = 3
    /\ last.args.height = 2
    /\ last.args.paid_scale = <<2, 3>>
    /\ last.val.stamp = <<[px |-> 1, box |-> <<1, 0>>]>>

\* C9: for a w x h page and a positive box W x H the render fits the box,
\* touches it on at least one axis, and each rendered side is within one
\* pixel of the page side scaled by one common factor.
C9_RenderFitsBox ==
    ( /\ last.op = "pdfpage_to_png"
      /\ last.args.max_rect[1] > 0
      /\ last.args.max_rect[2] > 0 )
    => /\ last.exc = NoExc
       /\ LET w  == last.args.page.w
              h  == last.args.page.h
              W  == last.args.max_rect[1]
              H  == last.args.max_rect[2]
              rw == last.val.width
              rh == last.val.height
          IN  /\ rw <= W /\ rh <= H
              /\ rw = W \/ rh = H
              /\ rw >= 1 /\ rh >= 1
              /\ (rw - 1) * h < rh * w
              /\ (rh - 1) * w < rw * h

C9_Witness ==
    /\ last.op = "pdfpage_to_png"
    /\ last.args.page.w = 3
    /\ last.args.page.h = 2
    /\ last.args.max_rect = <<2, 3>>
    /\ last.val.width = 2
    /\ last.val.height = 2

\* C10: for a non-empty name the lookup returns the image built from the
\* first entry of the list with that name, and raises FileNotFoundError when
\* no entry has it.
C10_FirstNamedImage ==
    (last.op = "get_image_from_pdfpage" /\ last.args.image_name # "") =>
        LET images == last.args.page.images
            hits == {i \in DOMAIN images : images[i].name = last.args.image_name}
        IN  IF hits = {}
            THEN last.exc = [type |-> "FileNotFoundError", line |-> 69]
            ELSE /\ last.exc = NoExc
                 /\ \E i \in hits :
                       /\ \A j \in hits : i <= j
                       /\ last.val.src = images[i].xref

C10_Witness ==
    /\ last.op = "get_image_from_pdfpage"
    /\ Len(last.args.page.images) = 2
    /\ last.args.page.images[1].name = last.args.image_name
    /\ last.args.page.images[2].name = last.args.image_name
    /\ last.val.src = 1

====
